---- MODULE Spec2Model ----
(***************************************************************************)
(* A model of TrailEffect (src/src/trail-shader/trail-effect.ts): the two  *)
(* ping-pong render targets, the two copies of the shader uniforms, the    *)
(* per-frame update followed by the effect pass, and the resize / option   *)
(* lifecycle.                                                              *)
(*                                                                         *)
(* Representation.                                                         *)
(*  - An image is one colour value (every pixel alike), a fixed-point      *)
(*    number with FP standing for 1.0; only the rgb channels are followed. *)
(*  - resolutionScale is held in hundredths (50 stands for 0.5), the step  *)
(*    of the host's control; floor(width * scale) is exact on those.       *)
(*  - A texture reference is <<"null">>, <<"rt", id>> (the texture of      *)
(*    render target id) or <<"in", id>> (the texture of a host buffer).    *)
(*    A uniform holds the reference, not the pixels: what a pass samples   *)
(*    is the content the referenced texture has when the pass runs.        *)
(*  - A GPU resource is named <<"rt", id>> (the framebuffer and texture of *)
(*    render target id), <<"geometry", 0>> or <<"material", 0>> (the       *)
(*    buffers and the program of the full-screen mesh). The renderer       *)
(*    allocates one when it is first used and frees it on dispose().       *)
(***************************************************************************)
EXTENDS Integers, Sequences, FiniteSets, TLC

(* ------------------------------ bounds -------------------------------- *)

\* Step calls followed in one run.
MaxSteps == 3

\* Fixed-point unit: FP stands for 1.0 in colours, trailAmount and decay.
FP == 1000

(* ------------------------- inputs of the calls ------------------------ *)

\* Drawing-buffer / viewport sizes <<width, height>> the host reports.
Viewports == {<<50, 40>>, <<800, 600>>}

\* resolutionScale values, in hundredths, inside the documented (0, 1].
Scales == {1, 50}

\* trailAmount values as the caller expresses them (0 .. 199.9).
Amounts == {0, 95}

\* BlendFunction values (an opaque tag for the effect).
Blends == {"LIGHTEN", "NORMAL"}

\* Colours of the frames the host renders.
Colours == {0, FP}

\* Host buffers the pipeline may hand to update() as inputBuffer: the composer's
\* input and output buffers.
InputIds == {1, 2}

TargetIds == {1, 2}

\* An optional argument: <<>> when it was not passed, <<v>> when v was.
Undefined == <<>>

Given(v) == <<v>>

Optional(S) == {Given(v) : v \in S} \cup {Undefined}

(* --------------------------- program constants ------------------------ *)

\* One hundredth is the unit resolutionScale is held in.
ScaleDen == 100

\* trailAmount / 100
AmountDivisor == 100

\* The renderer's clear colour, '#000000'.
ClearColour == 0

\* A texture just (re)allocated, and the sample of an unbound sampler.
Blank == 0

NullTexture == <<"null">>

\* No size was given yet.
NoSize == <<0, 0>>

\* The GPU resources the effect owns.
RT(id) == <<"rt", id>>

Geometry == <<"geometry", 0>>

Material == <<"material", 0>>

Owned == {RT(i) : i \in TargetIds} \cup {Geometry, Material}

\* The renderer's default framebuffer (getRenderTarget() returns null).
Screen == <<"screen", 0>>

VARIABLES
    renderTargetA,      \* id of the target this.renderTargetA refers to
    renderTargetB,      \* id of the target this.renderTargetB refers to
    targets,            \* id -> [width, height, px]
    resolutionScale,    \* this.resolutionScale, in hundredths
    localRenderer,      \* this._localRenderer is set
    blendFunction,      \* this._blendFunction
    blendMode,          \* this.blendMode.blendFunction
    uniforms,           \* the effect's uniform map (read by mainImage)
    material,           \* postFXMesh.material.uniforms (read by the buffer pass)
    drawingBufferSize,  \* renderer.getDrawingBufferSize()
    activeTarget,       \* renderer.getRenderTarget(): Screen or RT(id)
    tex,                \* host buffer id -> colour it holds
    output,             \* colour produced by the last effect pass
    allocated,          \* the owned resources the renderer holds GPU memory for
    inScene,            \* postFXMesh is a child of postFXScene
    steps,              \* history: number of update() calls so far
    written,            \* history: id of the target the last call drew into (0: none)
    frame,              \* history: colour of the frame given to the last call
    supplied,           \* history: trailAmount last passed by the caller, if any
    disposes,           \* history: dispose() calls so far, 2 standing for 2 or more
    replaced,           \* history: effects the host replaced that nothing disposed
    given,              \* history: size last given by initialize or setSize
    applied,            \* history: size the targets were last sized from
    calm                \* history: initialize came before every update, and no
                        \*          option change, resize or reset came after it

vars == <<renderTargetA, renderTargetB, targets, resolutionScale, localRenderer,
          blendFunction, blendMode, uniforms, material, drawingBufferSize,
          activeTarget, tex, output, allocated, inScene, steps, written, frame,
          supplied, disposes, replaced, given, applied, calm>>

(* ------------------------------ shaders -------------------------------- *)

\* Mutant of Scaled: Math.ceil in place of Math.floor.
ScaledCeil(dim, scale) == (dim * scale + ScaleDen - 1) \div ScaleDen

\* Math.floor(width * this.resolutionScale)
Scaled(dim, scale) == (dim * scale) \div ScaleDen

\* Mutant of Normalized: the quotient clamped into [0, 1].
NormalizedClamped(amount) ==
    IF amount >= AmountDivisor THEN FP
    ELSE IF amount <= 0 THEN 0 ELSE (amount * FP) \div AmountDivisor

\* trailAmount / 100, as a fixed-point number
Normalized(amount) == (amount * FP) \div AmountDivisor

\* The series of exp(-x): sum of (-x)^k / k!, term by term until a term vanishes.
RECURSIVE ExpSeries(_, _, _, _)
ExpSeries(x, k, term, acc) ==
    IF term = 0 THEN acc
    ELSE ExpSeries(x, k + 1, (term * x) \div (FP * (k + 1)),
                   IF k % 2 = 0 THEN acc + term ELSE acc - term)

\* float decay = exp(-trailAmount * .2);
Decay(trailAmount) == ExpSeries((trailAmount * 2) \div 10, 0, FP, 0)

\* Mutant of Mix: the two weights exchanged.
MixSwapped(x, y, a) == (x * a + y * (FP - a)) \div FP

\* GLSL mix(x, y, a) = x * (1 - a) + y * a
Mix(x, y, a) == (x * (FP - a) + y * a) \div FP

\* texture2D(ref, uv), given the contents of the targets and of the host buffers.
Sample(ref, tgts, texs) ==
    CASE ref[1] = "rt" -> tgts[ref[2]].px
      [] ref[1] = "in" -> texs[ref[2]]
      [] OTHER -> Blank

\* The body shared by fragmentShader and mainImageShader.
Shade(u, tgts, texs) ==
    LET current == Sample(u.currentFrame, tgts, texs)
    IN  IF u.trailEnabled
        THEN Mix(current, Sample(u.previousFrame, tgts, texs), Decay(u.trailAmount))
        ELSE current

\* fragmentShader, run with the material's uniforms (the buffer pass).
FragmentShader(u, tgts, texs) == Shade(u, tgts, texs)

\* Mutant of MainImage: the trailEnabled test dropped, the blend always made.
MainImageAlwaysBlends(u, tgts, texs) ==
    Mix(Sample(u.currentFrame, tgts, texs), Sample(u.previousFrame, tgts, texs),
        Decay(u.trailAmount))

\* mainImageShader, run with the effect's uniforms (the output pass).
MainImage(u, tgts, texs) == Shade(u, tgts, texs)

(* --------------------------- render targets ---------------------------- *)

NewTarget(w, h) == [width |-> w, height |-> h, px |-> Blank]

\* A target without area holds no pixel: nothing can be drawn into it.
HasArea(t) == t.width >= 1 /\ t.height >= 1

\* Mutant of Resized: the old pixels kept (stretched) across a change of size.
ResizedKeepingPixels(t, w, h) == [t EXCEPT !.width = w, !.height = h]

\* WebGLRenderTarget.setSize: a change of size disposes the texture, and the
\* storage allocated for the new size starts zero-filled; the same size is kept.
Resized(t, w, h) ==
    IF t.width = w /\ t.height = h THEN t ELSE NewTarget(w, h)

\* renderer.setRenderTarget(t); renderer.clear()
Cleared(t) == [t EXCEPT !.px = ClearColour]

\* renderer.render(postFXScene, orthoCamera) into t
Rendered(t, colour) == IF HasArea(t) THEN [t EXCEPT !.px = colour] ELSE t

\* clearRenderTargets(renderer): both targets, the active target restored.
ClearRenderTargets(tgts) == [i \in TargetIds |-> Cleared(tgts[i])]

\* Mutant of SetSizeTargets: renderTargetA resized twice, renderTargetB never.
SetSizeTargetsOnlyOne(tgts, w, h, scale, haveRenderer) ==
    LET sized == [tgts EXCEPT ![1] = Resized(@, Scaled(w, scale), Scaled(h, scale))]
    IN  IF haveRenderer THEN [i \in TargetIds |-> Cleared(sized[i])] ELSE sized

\* The targets after setSize(width, height), given the scale and the renderer.
SetSizeTargets(tgts, w, h, scale, haveRenderer) ==
    LET sized == [i \in TargetIds |->
                    Resized(tgts[i], Scaled(w, scale), Scaled(h, scale))]
    IN  IF haveRenderer THEN ClearRenderTargets(sized) ELSE sized

\* The owned resources in GPU memory after setSize took the targets from old to
\* new: a target whose size changed was disposed, and with a renderer both
\* targets were then cleared, which allocates them.
SetSizeAllocated(alloc, old, new, haveRenderer) ==
    IF haveRenderer
    THEN alloc \cup {RT(i) : i \in TargetIds}
    ELSE alloc \ {RT(i) : i \in {j \in TargetIds : \/ old[j].width # new[j].width
                                                   \/ old[j].height # new[j].height}}

\* Mutant of ActiveAfterClear: oldTarget is not made active again.
ActiveLeftOnCleared(active, a, b) == RT(b)

\* The renderer's active target after clearRenderTargets, a and b being
\* renderTargetA and renderTargetB: oldTarget is read, then a, b and oldTarget
\* are made active in turn; the last one stays.
ActiveAfterClear(active, a, b) ==
    LET oldTarget == active
        calls     == <<RT(a), RT(b), oldTarget>>
    IN  calls[Len(calls)]

(* ------------------------------- Init ---------------------------------- *)

\* The defaults of the constructor's options.
DefaultAmount == 95

DefaultScale == 50

DefaultEnabled == TRUE

DefaultBlend == "LIGHTEN"

\* const { option = default } = options
OrElse(option, default) == IF option = Undefined THEN default ELSE option[1]

\* constructor(options): every option is optional and has a default.
Constructor(amount, enabled, scale, blend) ==
    /\ uniforms = [previousFrame |-> NullTexture, currentFrame |-> NullTexture,
                   trailAmount |-> Normalized(OrElse(amount, DefaultAmount)),
                   trailEnabled |-> OrElse(enabled, DefaultEnabled)]
    /\ material = [currentFrame |-> NullTexture, previousFrame |-> NullTexture,
                   trailAmount |-> Normalized(OrElse(amount, DefaultAmount)),
                   trailEnabled |-> OrElse(enabled, DefaultEnabled)]
    /\ blendFunction = OrElse(blend, DefaultBlend)
    /\ blendMode = blendFunction
    /\ resolutionScale = OrElse(scale, DefaultScale)
    /\ renderTargetA = 1
    /\ renderTargetB = 2
    /\ targets = [i \in TargetIds |-> NewTarget(1, 1)]
    /\ localRenderer = FALSE
    /\ allocated = {}
    /\ inScene = TRUE
    /\ supplied = amount

\* The state no call was made in yet.
Fresh ==
    /\ activeTarget = Screen
    /\ tex = [i \in InputIds |-> Blank]
    /\ output = Blank
    /\ steps = 0
    /\ written = 0
    /\ frame = Blank
    /\ disposes = 0
    /\ replaced = 0
    /\ given = NoSize
    /\ applied = NoSize
    /\ calm = FALSE

\* An effect constructed with every option passed, on a canvas of some size.
Init ==
    /\ \E amount \in Amounts, enabled \in BOOLEAN, scale \in Scales, blend \in Blends :
          Constructor(Given(amount), Given(enabled), Given(scale), Given(blend))
    /\ drawingBufferSize \in Viewports
    /\ Fresh

(* ------------------------------ actions -------------------------------- *)

\* The targets and their roles, as initialize and the claims about it see them.
Buffers == [targets |-> targets, renderTargetA |-> renderTargetA,
            renderTargetB |-> renderTargetB]

\* Mutant of Initialized: the setSize call left out, the targets only cleared.
InitializedWithoutResize(f) == [f EXCEPT !.targets = ClearRenderTargets(@)]

\* The targets and their roles after initialize(renderer, ...): setSize with the
\* renderer's drawing-buffer size, then clearRenderTargets.
Initialized(f) ==
    [f EXCEPT !.targets = ClearRenderTargets(
                             SetSizeTargets(@, drawingBufferSize[1],
                                            drawingBufferSize[2], resolutionScale, TRUE))]

\* initialize(renderer, alpha, frameBufferType)
Initialize ==
    /\ localRenderer' = TRUE
    /\ \E new \in {Initialized(Buffers)} :
          /\ targets' = new.targets
          /\ renderTargetA' = new.renderTargetA
          /\ renderTargetB' = new.renderTargetB
    /\ allocated' = SetSizeAllocated(allocated, targets, targets', TRUE)
    /\ given' = drawingBufferSize
    /\ applied' = drawingBufferSize
    /\ calm' = (steps = 0)
    /\ activeTarget' = ActiveAfterClear(
                          ActiveAfterClear(activeTarget, renderTargetA, renderTargetB),
                          renderTargetA, renderTargetB)
    /\ UNCHANGED <<resolutionScale, blendFunction, blendMode, uniforms, material,
                   drawingBufferSize, tex, output, inScene, steps,
                   written, frame, supplied, disposes, replaced>>

\* Mutant of Bound: previousFrame bound to the texture of the other target, the
\* one the next update() draws into (renderTargetA read in place of B).
BoundToWriteTarget(u, input, previous) ==
    [u EXCEPT !.currentFrame = <<"in", input>>,
              !.previousFrame = <<"rt", CHOOSE i \in TargetIds : i # previous>>]

\* The bindings updateUniforms(inputBuffer) writes into a uniform set.
Bound(u, input, previous) ==
    [u EXCEPT !.currentFrame = <<"in", input>>, !.previousFrame = <<"rt", previous>>]

\* The target update() draws into.
WriteTarget == renderTargetA

\* Mutant of Swapped: the swap left out.
NotSwapped == <<renderTargetA, renderTargetB>>

\* swapRenderTargets(): <<renderTargetA, renderTargetB>> after the swap.
Swapped == <<renderTargetB, renderTargetA>>

\* What one frame leaves, the host buffers holding `hosted` before it: the host
\* renders colour c into its buffer `input`, update() draws the buffer pass into
\* the write target, swaps and binds, and the effect pass draws mainImage.
Frame(hosted, input, c) ==
    LET texs   == [hosted EXCEPT ![input] = c]
        target == WriteTarget
        drawn  == FragmentShader(material, targets, texs)
        tgts   == IF inScene
                  THEN [targets EXCEPT ![target] = Rendered(targets[target], drawn)]
                  ELSE targets
        unis   == Bound(uniforms, input, Swapped[2])
    IN  [tex |-> texs, targets |-> tgts, uniforms |-> unis,
         material |-> Bound(material, input, Swapped[2]),
         output |-> MainImage(unis, tgts, texs)]

\* One frame: the host renders colour c into its buffer `input`, the pass calls
\* update(renderer, inputBuffer, deltaTime), then draws mainImage.
Step(input, c) ==
    /\ steps < MaxSteps
    /\ \E new \in {Frame(tex, input, c)} :
          /\ tex' = new.tex
          /\ targets' = new.targets
          /\ material' = new.material
          /\ uniforms' = new.uniforms
          /\ output' = new.output
    /\ activeTarget' = RT(WriteTarget)
    /\ renderTargetA' = Swapped[1]
    /\ renderTargetB' = Swapped[2]
    /\ allocated' = allocated \cup {RT(WriteTarget)}
                       \cup (IF inScene THEN {Geometry, Material} ELSE {})
    /\ written' = WriteTarget
    /\ frame' = c
    /\ steps' = steps + 1
    /\ UNCHANGED <<resolutionScale, localRenderer, blendFunction, blendMode,
                   drawingBufferSize, inScene, supplied, disposes, replaced, given,
                   applied, calm>>

\* Mutant of SetSize: the resize also exchanges the two targets.
SetSizeSwapping(w, h) ==
    /\ targets' = SetSizeTargets(targets, w, h, resolutionScale, localRenderer)
    /\ renderTargetA' = renderTargetB
    /\ renderTargetB' = renderTargetA
    /\ allocated' = SetSizeAllocated(allocated, targets, targets', localRenderer)
    /\ given' = <<w, h>>
    /\ applied' = <<w, h>>
    /\ calm' = FALSE
    /\ UNCHANGED <<resolutionScale, localRenderer, blendFunction, blendMode, uniforms,
                   material, drawingBufferSize, activeTarget, tex, output, inScene,
                   steps, written, frame, supplied, disposes, replaced>>

\* setSize(width, height)
SetSize(w, h) ==
    /\ targets' = SetSizeTargets(targets, w, h, resolutionScale, localRenderer)
    /\ allocated' = SetSizeAllocated(allocated, targets, targets', localRenderer)
    /\ given' = <<w, h>>
    /\ applied' = <<w, h>>
    /\ activeTarget' = IF localRenderer
                      THEN ActiveAfterClear(activeTarget, renderTargetA, renderTargetB)
                      ELSE activeTarget
    /\ calm' = FALSE
    /\ UNCHANGED <<renderTargetA, renderTargetB, resolutionScale, localRenderer,
                   blendFunction, blendMode, uniforms, material, drawingBufferSize,
                   tex, output, inScene, steps, written, frame, supplied, disposes, replaced>>

\* Mutant of ResetRenderTargets: only the write target is cleared.
ResetOnlyWriteTarget ==
    /\ targets' = IF localRenderer
                  THEN [targets EXCEPT ![renderTargetA] = Cleared(@)]
                  ELSE targets
    /\ allocated' = IF localRenderer
                    THEN allocated \cup {RT(i) : i \in TargetIds}
                    ELSE allocated
    /\ calm' = FALSE
    /\ UNCHANGED <<renderTargetA, renderTargetB, resolutionScale, localRenderer,
                   blendFunction, blendMode, uniforms, material, drawingBufferSize,
                   activeTarget, tex, output, inScene, steps, written, frame, supplied, disposes, replaced,
                   given, applied>>

\* resetRenderTargets()
ResetRenderTargets ==
    /\ targets' = IF localRenderer THEN ClearRenderTargets(targets) ELSE targets
    /\ allocated' = IF localRenderer
                    THEN allocated \cup {RT(i) : i \in TargetIds}
                    ELSE allocated
    /\ activeTarget' = IF localRenderer
                      THEN ActiveAfterClear(activeTarget, renderTargetA, renderTargetB)
                      ELSE activeTarget
    /\ calm' = FALSE
    /\ UNCHANGED <<renderTargetA, renderTargetB, resolutionScale, localRenderer,
                   blendFunction, blendMode, uniforms, material, drawingBufferSize,
                   tex, output, inScene, steps, written, frame, supplied, disposes, replaced,
                   given, applied>>

\* Mutant of WithOptions: a trailAmount that is passed is not stored.
WithOptionsDroppingAmount(u, amount, enabled) ==
    [u EXCEPT !.trailEnabled = IF enabled = Undefined THEN @ ELSE enabled[1]]

\* Mutant of WithOptions: a trailEnabled that is not passed is taken as true.
WithOptionsDefaultingFlag(u, amount, enabled) ==
    [u EXCEPT !.trailAmount  = IF amount = Undefined THEN @ ELSE Normalized(amount[1]),
              !.trailEnabled = OrElse(enabled, DefaultEnabled)]

\* The trailAmount / trailEnabled part of updateOptions, on one uniform set.
WithOptions(u, amount, enabled) ==
    [u EXCEPT !.trailAmount  = IF amount = Undefined THEN @ ELSE Normalized(amount[1]),
              !.trailEnabled = IF enabled = Undefined THEN @ ELSE enabled[1]]

\* Mutant of Rescales: the comparison with the stored scale left out.
RescalesWhenPassed(scale) == scale # Undefined

\* resolutionScale !== undefined && resolutionScale !== this.resolutionScale
Rescales(scale) == scale # Undefined /\ scale[1] # resolutionScale

\* Mutant of Updated: the amount and the flag written to the effect's uniform
\* map only, the material's uniforms left as they were.
UpdatedMapOnly(amount, enabled, scale, blend) ==
    LET resize  == Rescales(scale) /\ localRenderer
        reblend == blend # Undefined /\ blend[1] # blendFunction
        tgts    == IF resize
                   THEN SetSizeTargets(targets, drawingBufferSize[1],
                                       drawingBufferSize[2], scale[1], TRUE)
                   ELSE targets
    IN  [uniforms        |-> WithOptions(uniforms, amount, enabled),
         material        |-> material,
         resolutionScale |-> IF Rescales(scale) THEN scale[1] ELSE resolutionScale,
         targets         |-> tgts,
         allocated       |-> IF resize
                             THEN SetSizeAllocated(allocated, targets, tgts, TRUE)
                             ELSE allocated,
         blendFunction   |-> IF reblend THEN blend[1] ELSE blendFunction,
         blendMode       |-> IF reblend THEN blend[1] ELSE blendMode,
         renderTargetA   |-> renderTargetA,
         renderTargetB   |-> renderTargetB,
         localRenderer   |-> localRenderer,
         inScene         |-> inScene]

\* The effect's fields after updateOptions(trailAmount?, trailEnabled?,
\* resolutionScale?, blendFunction?) returned.
Updated(amount, enabled, scale, blend) ==
    LET resize  == Rescales(scale) /\ localRenderer
        reblend == blend # Undefined /\ blend[1] # blendFunction
        tgts    == IF resize
                   THEN SetSizeTargets(targets, drawingBufferSize[1],
                                       drawingBufferSize[2], scale[1], TRUE)
                   ELSE targets
    IN  [uniforms        |-> WithOptions(uniforms, amount, enabled),
         material        |-> WithOptions(material, amount, enabled),
         resolutionScale |-> IF Rescales(scale) THEN scale[1] ELSE resolutionScale,
         targets         |-> tgts,
         allocated       |-> IF resize
                             THEN SetSizeAllocated(allocated, targets, tgts, TRUE)
                             ELSE allocated,
         blendFunction   |-> IF reblend THEN blend[1] ELSE blendFunction,
         blendMode       |-> IF reblend THEN blend[1] ELSE blendMode,
         renderTargetA   |-> renderTargetA,
         renderTargetB   |-> renderTargetB,
         localRenderer   |-> localRenderer,
         inScene         |-> inScene]

\* The effect's fields as they are.
Fields ==
    [uniforms |-> uniforms, material |-> material,
     resolutionScale |-> resolutionScale, targets |-> targets,
     allocated |-> allocated, blendFunction |-> blendFunction,
     blendMode |-> blendMode, renderTargetA |-> renderTargetA,
     renderTargetB |-> renderTargetB, localRenderer |-> localRenderer,
     inScene |-> inScene]

\* updateOptions(trailAmount?, trailEnabled?, resolutionScale?, blendFunction?)
UpdateOptions(amount, enabled, scale, blend) ==
    \E new \in {Updated(amount, enabled, scale, blend)} :
        /\ uniforms' = new.uniforms
        /\ material' = new.material
        /\ resolutionScale' = new.resolutionScale
        /\ targets' = new.targets
        /\ allocated' = new.allocated
        /\ blendFunction' = new.blendFunction
        /\ blendMode' = new.blendMode
        /\ renderTargetA' = new.renderTargetA
        /\ renderTargetB' = new.renderTargetB
        /\ localRenderer' = new.localRenderer
        /\ inScene' = new.inScene
        /\ supplied' = IF amount = Undefined THEN supplied ELSE amount
        /\ applied' = IF Rescales(scale) /\ localRenderer
                      THEN drawingBufferSize ELSE applied
        /\ activeTarget' = IF Rescales(scale) /\ localRenderer
                           THEN ActiveAfterClear(activeTarget, renderTargetA, renderTargetB)
                           ELSE activeTarget
        /\ calm' = FALSE
        /\ UNCHANGED <<drawingBufferSize, tex, output, steps, written,
                       frame, disposes, replaced, given>>

\* The canvas is resized: the renderer reports another drawing-buffer size.
HostResize(size) ==
    /\ size # drawingBufferSize
    /\ drawingBufferSize' = size
    /\ UNCHANGED <<renderTargetA, renderTargetB, targets, resolutionScale,
                   localRenderer, blendFunction, blendMode, uniforms, material,
                   activeTarget, tex, output, allocated, inScene, steps, written,
                   frame, supplied, disposes, replaced, given, applied, calm>>

\* Mutant of Release: a dispose() that is not guarded by what the renderer
\* holds, so that disposing a resource it does not hold leaves it marked held.
ReleaseUnguarded(alloc, r) == IF r \in alloc THEN alloc \ {r} ELSE alloc \cup {r}

\* r.dispose(): the renderer frees what it holds for r, if it holds anything.
Release(alloc, r) == alloc \ {r}

RECURSIVE ReleaseAll(_, _)
ReleaseAll(alloc, rs) ==
    IF rs = <<>> THEN alloc ELSE ReleaseAll(Release(alloc, Head(rs)), Tail(rs))

\* Mutant of Disposals: the material is forgotten.
DisposalsWithoutMaterial(a, b) == <<RT(a), RT(b), RT(a), RT(b), Geometry>>

\* The dispose() calls of one dispose(), in order, a and b being renderTargetA
\* and renderTargetB: super.dispose() disposes the fields that are render
\* targets, then the effect disposes both targets, the geometry and the material.
Disposals(a, b) == <<RT(a), RT(b), RT(a), RT(b), Geometry, Material>>

\* dispose()
Dispose ==
    /\ allocated' = ReleaseAll(allocated, Disposals(renderTargetA, renderTargetB))
    /\ inScene' = FALSE
    /\ disposes' = IF disposes = 0 THEN 1 ELSE 2
    /\ calm' = FALSE
    /\ UNCHANGED <<renderTargetA, renderTargetB, targets, resolutionScale,
                   localRenderer, blendFunction, blendMode, uniforms, material,
                   drawingBufferSize, activeTarget, tex, output, steps, written,
                   frame, supplied, replaced, given, applied>>

Next ==
    \/ Initialize
    \/ \E input \in InputIds, c \in Colours : Step(input, c)
    \/ \E size \in Viewports : SetSize(size[1], size[2])
    \/ ResetRenderTargets
    \/ \E amount \in Optional(Amounts), enabled \in Optional(BOOLEAN),
          scale \in Optional(Scales), blend \in Optional(Blends) :
          UpdateOptions(amount, enabled, scale, blend)
    \/ \E size \in Viewports : HostResize(size)

Spec == Init /\ [][Next]_vars

(* ------------- a caller of the whole API, in any order ------------------ *)

\* Step calls followed in one run of ApiSpec.
ApiSteps == 2

\* trailAmount values a caller may pass: the control's ends and beyond 100.
ApiAmounts == {0, 150}

\* resolutionScale values a caller may pass, in hundredths, outside (0, 1].
ApiScales == {0, 150}

\* An effect constructed with some options left out, on an 800x600 canvas.
ApiInit ==
    /\ \E amount \in Optional(ApiAmounts), enabled \in Optional({FALSE}),
          scale \in Optional(ApiScales) :
          Constructor(amount, enabled, scale, Undefined)
    /\ drawingBufferSize = <<800, 600>>
    /\ Fresh

ApiNext ==
    \/ Initialize
    \/ \E c \in Colours : steps < ApiSteps /\ Step(1, c)
    \/ \E size \in Viewports : SetSize(size[1], size[2])
    \/ ResetRenderTargets
    \/ \E amount \in Optional(ApiAmounts), enabled \in Optional(BOOLEAN),
          scale \in Optional(ApiScales), blend \in Optional(Blends) :
          UpdateOptions(amount, enabled, scale, blend)
    \/ Dispose

ApiSpec == ApiInit /\ [][ApiNext]_vars

(* ------------------- the host component, PostProcessing ----------------- *)

\* Effects the host replaces in one run of HostSpec.
MaxReplaced == 2

\* Values of the host's trailAmount control (80 is where it starts).
HostAmounts == {80, 95}

\* The uniforms of a newly constructed effect.
NewUniforms(amount, enabled) ==
    [previousFrame |-> NullTexture, currentFrame |-> NullTexture,
     trailAmount |-> Normalized(amount), trailEnabled |-> enabled]

\* The targets of a newly constructed effect once composer.addPass has called
\* setSize and initialize on its pass.
AddedTargets(size, scale) ==
    ClearRenderTargets(
        SetSizeTargets([i \in TargetIds |-> NewTarget(1, 1)], size[1], size[2],
                       scale, TRUE))

\* The host's first effect, configured and added to the composer.
HostInit ==
    /\ \E amount \in HostAmounts, enabled \in BOOLEAN, scale \in Scales,
          blend \in Blends :
          /\ uniforms = NewUniforms(amount, enabled)
          /\ material = NewUniforms(amount, enabled)
          /\ blendFunction = blend
          /\ blendMode = blend
          /\ resolutionScale = scale
          /\ supplied = Given(amount)
          /\ targets = AddedTargets(<<800, 600>>, scale)
    /\ drawingBufferSize = <<800, 600>>
    /\ renderTargetA = 1
    /\ renderTargetB = 2
    /\ localRenderer = TRUE
    /\ allocated = {RT(i) : i \in TargetIds}
    /\ inScene = TRUE
    /\ activeTarget = Screen
    /\ tex = [i \in InputIds |-> Blank]
    /\ output = Blank
    /\ steps = 0
    /\ written = 0
    /\ frame = Blank
    /\ disposes = 0
    /\ replaced = 0
    /\ given = drawingBufferSize
    /\ applied = drawingBufferSize
    /\ calm = TRUE

\* The host's configure handler, run when a control, the scene or the camera
\* changed: composer.removeAllPasses() drops the old pass without disposing it,
\* a new TrailEffect is constructed from the controls, stored in
\* trailEffectRef and added in a new pass. The state becomes the new effect's.
Configure(amount, enabled, scale, blend) ==
    /\ replaced < MaxReplaced
    /\ replaced' = replaced + (IF disposes = 0 THEN 1 ELSE 0)
    /\ uniforms' = NewUniforms(amount, enabled)
    /\ material' = NewUniforms(amount, enabled)
    /\ blendFunction' = blend
    /\ blendMode' = blend
    /\ resolutionScale' = scale
    /\ supplied' = Given(amount)
    /\ targets' = AddedTargets(drawingBufferSize, scale)
    /\ renderTargetA' = 1
    /\ renderTargetB' = 2
    /\ localRenderer' = TRUE
    /\ allocated' = {RT(i) : i \in TargetIds}
    /\ inScene' = TRUE
    /\ steps' = 0
    /\ written' = 0
    /\ disposes' = 0
    /\ given' = drawingBufferSize
    /\ applied' = drawingBufferSize
    /\ calm' = TRUE
    /\ UNCHANGED <<drawingBufferSize, activeTarget, tex, output, frame>>

HostNext ==
    \/ \E amount \in HostAmounts, enabled \in BOOLEAN, scale \in Scales,
          blend \in Blends : Configure(amount, enabled, scale, blend)
    \/ \E c \in Colours : Step(1, c)

HostSpec == HostInit /\ [][HostNext]_vars

(* ------------------------- state functions ----------------------------- *)

Dims(t) == <<t.width, t.height>>

\* n = floor(dim * scale), scale in hundredths, said without the model's Scaled.
IsFloor(n, dim, scale) == n * 100 <= dim * scale /\ dim * scale < (n + 1) * 100

\* Both targets are floor(size * scale) wide and high.
SizedFrom(tgts, size, scale) ==
    \A i \in TargetIds : /\ IsFloor(tgts[i].width, size[1], scale)
                         /\ IsFloor(tgts[i].height, size[2], scale)

(* ------------------------------ claims --------------------------------- *)

\* C1 as claimed: in every state after Initialize both buffers are
\* floor(viewport * resolutionScale) in width and height, the viewport being the
\* size most recently given to the effect by Initialize or SetSize.
C1_SizedFromGiven == localRenderer => SizedFrom(targets, given, resolutionScale)

\* C1 as amended: in every state after Initialize both buffers are
\* floor(size * resolutionScale) in width and height, where size is the size the
\* buffers were last sized from: the arguments of the latest SetSize, or the
\* renderer's drawing-buffer size read by a later Initialize or by a later
\* UpdateOptions that changed resolutionScale.
C1_SizedFromApplied == localRenderer => SizedFrom(targets, applied, resolutionScale)

\* C1's case: SetSize gave 50x40, then UpdateOptions changed the scale to 0.5 and
\* the buffers were sized from the 800x600 drawing buffer: 400x300.
C1_Witness ==
    /\ localRenderer
    /\ given = <<50, 40>>
    /\ applied = <<800, 600>>
    /\ resolutionScale = 50
    /\ \A i \in TargetIds : Dims(targets[i]) = <<400, 300>>

\* C2: in every reachable state the two buffers have the same width and the
\* same height.
C2_SameDims == Dims(targets[1]) = Dims(targets[2])

\* C2's case: after Steps (the roles swapped) and a resize, both are 400x300.
C2_Witness ==
    /\ steps >= 1
    /\ renderTargetA = 2
    /\ Dims(targets[1]) = <<400, 300>>
    /\ Dims(targets[2]) = <<400, 300>>

\* C3 as claimed: in every reachable state both buffers are at least 1x1 (the
\* viewports are at least 1x1 and the scales inside (0, 1]).
C3_AtLeastOneByOne ==
    \A i \in TargetIds : targets[i].width >= 1 /\ targets[i].height >= 1

\* A step of the model that is one update() call.
IsStep == steps' = steps + 1

\* C4: in consecutive Step calls the buffer written by one call is the buffer
\* bound and read as previous frame by the next call, which writes the other
\* buffer; and when a Step returns, the previous-frame binding of both uniform
\* sets refers to the buffer just written.
C4_RoleSwap ==
    [][IsStep =>
        /\ steps >= 1 => /\ material.previousFrame = <<"rt", written>>
                         /\ written' # written
        /\ written' = renderTargetA
        /\ material'.previousFrame = <<"rt", written'>>
        /\ uniforms'.previousFrame = <<"rt", written'>>]_vars

\* C4's case: three Steps made, the third wrote target 1 and left it bound as
\* previous frame, target 2 being the next write target.
C4_Witness ==
    /\ steps = 3
    /\ written = 1
    /\ renderTargetA = 2
    /\ material.previousFrame = <<"rt", 1>>

\* C5: a Step made while trailEnabled is false outputs the frame it was given,
\* whatever the buffers hold.
C5_BypassIdentity ==
    [][IsStep /\ ~uniforms.trailEnabled => output' = frame']_vars

\* C5's case: the second Step got a white frame and output it, while the buffer
\* it drew holds black.
C5_Witness ==
    /\ steps = 2
    /\ ~uniforms.trailEnabled
    /\ frame = FP
    /\ output = FP
    /\ targets[written].px = 0

\* C6 as claimed: after Initialize, with trailEnabled true and nothing but Steps
\* since, the output of a Step is mix(its frame, the output of the Step before,
\* decay), the output before the first Step being the clear baseline. (Stated
\* for buffers that have an area, so that no degenerate size is involved.)
C6_Recurrence ==
    [][/\ IsStep /\ calm /\ uniforms.trailEnabled
       /\ \A i \in TargetIds : HasArea(targets[i])
       => output' = Mix(frame', IF steps = 0 THEN ClearColour ELSE output,
                      Decay(uniforms.trailAmount))]_vars

IsSetSize ==
    /\ given' \in Viewports
    /\ steps' = steps
    /\ localRenderer' = localRenderer
    /\ resolutionScale' = resolutionScale
    /\ uniforms' = uniforms
    /\ blendFunction' = blendFunction
    /\ SetSize(given'[1], given'[2])

\* Both targets have the size floor(size * scale) and hold the clear baseline.
FreshAt(tgts, size, scale) ==
    \A i \in TargetIds : /\ Dims(tgts[i]) = <<Scaled(size[1], scale), Scaled(size[2], scale)>>
                         /\ tgts[i].px = ClearColour

\* C8: after a SetSize that changes the buffer dimensions, in whatever state it
\* is called, and after an UpdateOptions that changes resolutionScale on an
\* initialized effect, both buffers have the new dimensions and hold the clear
\* baseline.
C8_ResizeClears ==
    [][/\ IsSetSize /\ Dims(targets'[1]) # Dims(targets[1])
            => FreshAt(targets', given', resolutionScale)
       /\ localRenderer /\ resolutionScale' # resolutionScale
            => FreshAt(targets', drawingBufferSize, resolutionScale')]_vars

\* C8's case: the last Step blended a black frame into a lit output, so the
\* buffers held an image; the effect was last given 50x40, and an UpdateOptions
\* to scale 0.01 resized from the 800x600 drawing buffer: both buffers are 8x6
\* and hold the baseline.
C8_Witness ==
    /\ localRenderer
    /\ steps = 3
    /\ uniforms.trailEnabled
    /\ frame = 0
    /\ output > 0
    /\ given = <<50, 40>>
    /\ applied = <<800, 600>>
    /\ resolutionScale = 1
    /\ \A i \in TargetIds : Dims(targets[i]) = <<8, 6>> /\ targets[i].px = ClearColour

\* C9: a SetSize call, in whatever state, leaves renderTargetA (the write
\* target), renderTargetB (the history source) and the previous-frame bindings
\* as they were.
C9_SetSizeKeepsRoles ==
    [][IsSetSize =>
        /\ renderTargetA' = renderTargetA
        /\ renderTargetB' = renderTargetB
        /\ material'.previousFrame = material.previousFrame
        /\ uniforms'.previousFrame = uniforms.previousFrame]_vars

\* C9's case: the second Step drew an image into target 2 (a black frame gave a
\* lit output); with no renderer yet, only a SetSize that changed the size can
\* have emptied it since. Target 1 is still the write target and target 2 still
\* bound as previous frame.
C9_Witness ==
    /\ ~localRenderer
    /\ steps = 2
    /\ uniforms.trailEnabled
    /\ frame = 0
    /\ output > 0
    /\ written = 2
    /\ targets[2].px = 0
    /\ given = <<50, 40>>
    /\ renderTargetA = 1
    /\ renderTargetB = 2
    /\ material.previousFrame = <<"rt", 2>>

\* C10: a ResetBuffers call on an initialized effect leaves both buffers holding
\* the clear baseline and changes neither the buffer dimensions, the roles, the
\* texture bindings nor decayAmount, enabled, resolutionScale and blendMode.
C10_ResetOnlyClears ==
    [][ResetRenderTargets /\ localRenderer =>
        /\ \A i \in TargetIds : /\ targets'[i].px = ClearColour
                                /\ Dims(targets'[i]) = Dims(targets[i])
        /\ renderTargetA' = renderTargetA
        /\ renderTargetB' = renderTargetB
        /\ uniforms' = uniforms
        /\ material' = material
        /\ resolutionScale' = resolutionScale
        /\ blendFunction' = blendFunction
        /\ blendMode' = blendMode]_vars

\* C10's case: the last Step blended a black frame into a lit output, so the
\* buffers held an image; they now hold the baseline at their 400x300 size, and
\* the bindings still name the buffers.
C10_Witness ==
    /\ localRenderer
    /\ steps = 3
    /\ uniforms.trailEnabled
    /\ frame = 0
    /\ output > 0
    /\ given = applied
    /\ material.previousFrame = <<"rt", written>>
    /\ \A i \in TargetIds : Dims(targets[i]) = <<400, 300>> /\ targets[i].px = ClearColour

\* C11: the Step after an UpdateOptions call blends with the values the call
\* stored, in both passes: the pass that draws the accumulation buffer and the
\* pass that produces the output both use the decayAmount last supplied (by
\* UpdateOptions, else by the constructor) and the same enabled flag, the one
\* both uniform sets hold; and a call that changes the flag of one uniform set
\* changes it in the other.
C11_OptionsTakeEffect ==
    [][/\ uniforms'.trailEnabled = material'.trailEnabled
       /\ IsStep /\ HasArea(targets[renderTargetA]) =>
             LET now == Normalized(OrElse(supplied, DefaultAmount))
             IN  /\ targets'[written'].px =
                       Shade([material EXCEPT !.trailAmount = now,
                                              !.trailEnabled = uniforms.trailEnabled],
                             targets, tex')
                 /\ output' =
                       Shade([uniforms' EXCEPT !.trailAmount = now,
                                               !.trailEnabled = material.trailEnabled],
                             targets', tex')]_vars

\* C11's case: the second Step blended a white frame over black with amount 95
\* (the buffer it drew holds 1 - exp(-0.19)); the amount was then set to 0, and
\* the third Step, given a black frame, copied that buffer and output it, as
\* only the new amount does.
C11_Witness ==
    /\ steps = 3
    /\ supplied = Given(0)
    /\ uniforms.trailEnabled
    /\ frame = 0
    /\ targets[2].px = FP - Decay(Normalized(95))
    /\ targets[2].px > 0
    /\ targets[1].px = targets[2].px
    /\ output = targets[2].px
    /\ written = 1

\* C12: in every reachable state, whatever the arguments, updateOptions leaves
\* what was not passed as it is: without trailAmount the stored amounts, without
\* trailEnabled the flags, without resolutionScale the scale and the buffers
\* (sizes, contents, GPU memory), without blendFunction the blend function;
\* never the roles or the texture bindings; a call without arguments changes
\* no field, and a call with the blend function alone changes the blend
\* function and blend mode to it and nothing else.
C12_OnlyWhatWasPassed ==
    \A amount \in Optional(ApiAmounts), enabled \in Optional(BOOLEAN),
       scale \in Optional(ApiScales), blend \in Optional(Blends) :
       \A new \in {Updated(amount, enabled, scale, blend)} :
           /\ amount = Undefined =>
                 /\ new.uniforms.trailAmount = uniforms.trailAmount
                 /\ new.material.trailAmount = material.trailAmount
           /\ enabled = Undefined =>
                 /\ new.uniforms.trailEnabled = uniforms.trailEnabled
                 /\ new.material.trailEnabled = material.trailEnabled
           /\ scale = Undefined =>
                 /\ new.resolutionScale = resolutionScale
                 /\ new.targets = targets
                 /\ new.allocated = allocated
           /\ blend = Undefined =>
                 /\ new.blendFunction = blendFunction
                 /\ new.blendMode = blendMode
           /\ new.renderTargetA = renderTargetA
           /\ new.renderTargetB = renderTargetB
           /\ new.uniforms.previousFrame = uniforms.previousFrame
           /\ new.uniforms.currentFrame = uniforms.currentFrame
           /\ new.material.previousFrame = material.previousFrame
           /\ new.material.currentFrame = material.currentFrame
           /\ new.localRenderer = localRenderer
           /\ new.inScene = inScene
           /\ amount = Undefined /\ enabled = Undefined /\ scale = Undefined =>
                 /\ blend = Undefined => new = Fields
                 /\ blend # Undefined =>
                       new = [Fields EXCEPT !.blendFunction = blend[1],
                                            !.blendMode = blend[1]]

\* C12's case: the effect was constructed without a blend function (LIGHTEN)
\* and without an amount, and none was supplied since; a call changed the blend
\* mode to NORMAL, and the 400x300 buffers still hold the image of two Steps,
\* the flag and the default scale being what they were.
C12_Witness ==
    /\ blendMode = "NORMAL"
    /\ blendFunction = "NORMAL"
    /\ supplied = Undefined
    /\ localRenderer
    /\ steps = 2
    /\ uniforms.trailEnabled
    /\ resolutionScale = DefaultScale
    /\ \A i \in TargetIds : Dims(targets[i]) = <<400, 300>>
    /\ targets[2].px > 0
    /\ output > 0

\* C13: in every reachable state, whatever came before, an Initialize leaves
\* both buffers floor(size * resolutionScale) wide and high, size being the
\* renderer's drawing-buffer size, and holding the clear baseline, with the
\* roles as they were; a second Initialize right after it, or after a SetSize
\* to any size, gives the same buffers and roles again.
C13_InitializeIdempotent ==
    \A once \in {Initialized(Buffers)} :
       /\ SizedFrom(once.targets, drawingBufferSize, resolutionScale)
       /\ \A i \in TargetIds : once.targets[i].px = ClearColour
       /\ once.renderTargetA = renderTargetA
       /\ once.renderTargetB = renderTargetB
       /\ Initialized(once) = once
       /\ \A size \in Viewports :
             Initialized([once EXCEPT !.targets =
                            SetSizeTargets(@, size[1], size[2], resolutionScale, TRUE)])
               = once

\* C13's case: an effect at scale 0.5 was initialized on an 800x600 canvas
\* before any Step and nothing was called since: both buffers are 400x300 and
\* hold the baseline.
C13_Witness ==
    /\ calm
    /\ localRenderer
    /\ steps = 0
    /\ resolutionScale = DefaultScale
    /\ drawingBufferSize = <<800, 600>>
    /\ given = <<800, 600>>
    /\ \A i \in TargetIds : Dims(targets[i]) = <<400, 300>> /\ targets[i].px = ClearColour
    /\ allocated = {RT(i) : i \in TargetIds}

\* C14: in every reachable state (before or after Initialize, after any number
\* of Steps, with the targets in either role) one Dispose leaves none of the
\* owned resources in GPU memory: neither render target, nor the geometry, nor
\* the material of the full-screen mesh.
C14_DisposeReleasesAll ==
    ReleaseAll(allocated, Disposals(renderTargetA, renderTargetB)) \cap Owned = {}

\* C14's case: an initialized effect made one Step, which drew the mesh into
\* target 1 and swapped the roles, and was disposed: nothing is left allocated.
C14_Witness ==
    /\ ~inScene
    /\ localRenderer
    /\ steps = 1
    /\ written = 1
    /\ renderTargetA = 2
    /\ allocated = {}

C16_NothingBeforeInitialize ==
    [][~localRenderer /\ (IsStep \/ IsSetSize) =>
        /\ targets' = targets
        /\ renderTargetA' = renderTargetA
        /\ renderTargetB' = renderTargetB
        /\ uniforms' = uniforms
        /\ material' = material]_vars

\* C17 as claimed: in every reachable state the stored resolutionScale is in
\* (0, 1], whatever scale the constructor or UpdateOptions was given, and the
\* buffers of an initialized effect are sized with a scale in (0, 1].
C17_ScaleClamped ==
    /\ resolutionScale > 0
    /\ resolutionScale <= ScaleDen
    /\ localRenderer => \A i \in TargetIds : /\ targets[i].width <= applied[1]
                                             /\ targets[i].height <= applied[2]

\* C18: in every reachable state the trailAmount stored in both uniform sets is
\* the amount the caller last supplied (to the constructor or to
\* UpdateOptions), 95 if none ever was, divided by 100 and not clamped (as a
\* fixed-point number, rounded down); Initialize, Step, SetSize, ResetBuffers
\* and Dispose leave it as it is.
C18_StoredAmount ==
    \A v \in {IF supplied = Undefined THEN 95 ELSE supplied[1]} :
       \A stored \in {uniforms.trailAmount, material.trailAmount} :
          /\ stored * 100 <= v * FP
          /\ v * FP < (stored + 1) * 100

\* C18's case: the second Step blended with the default amount (the buffer it
\* drew holds 1 - exp(-0.19)), then UpdateOptions supplied 150: both uniform
\* sets store 1.5.
C18_Witness ==
    /\ steps = 2
    /\ targets[2].px = FP - Decay(Normalized(DefaultAmount))
    /\ targets[2].px > 0
    /\ supplied = Given(150)
    /\ uniforms.trailAmount = (3 * FP) \div 2
    /\ material.trailAmount = (3 * FP) \div 2

\* C19 as claimed: once a Step has returned, no texture binding of the effect
\* refers to the input image of that Step (or of any Step).
C19_InputNotRetained ==
    \A u \in {uniforms, material} :
       u.currentFrame[1] # "in" /\ u.previousFrame[1] # "in"

\* C20 as claimed: in every Step, the first included, the pass that draws the
\* write target samples as current frame the input buffer passed to that Step
\* (the one the Step leaves bound) and as previous frame the texture of the
\* history source, renderTargetB.
C20_BufferPassSamplesInput ==
    [][IsStep =>
        /\ material.currentFrame = material'.currentFrame
        /\ material.previousFrame = RT(renderTargetB)]_vars

\* C21 as claimed: after any sequence of control changes at most one TrailEffect
\* of the host is undisposed: the current one, every replaced one having been
\* disposed.
C21_AtMostOneUndisposed == replaced + (IF disposes = 0 THEN 1 ELSE 0) <= 1

\* In this state, the output of the next Step does not depend on what the host
\* buffers hold, that is on the frames given to earlier Steps: whatever they
\* held instead, any frame passed in any host buffer gives the same output.
ForgetsEarlierFrames ==
    \A input \in InputIds, c \in Colours : \A hosted \in [InputIds -> Colours] :
       Frame(hosted, input, c).output = Frame(tex, input, c).output

\* C22 as claimed: after a ResetBuffers on an initialized effect, no frame
\* given to a Step before the reset influences the output of the Step after
\* it: two runs that differ only in those frames give the same output.
C22_ResetForgets ==
    [][ResetRenderTargets /\ localRenderer => ForgetsEarlierFrames']_vars

\* C23: in every reachable state, whatever calls came before, the target the
\* next Step draws into (renderTargetA) is not the one whose texture is bound
\* as previous frame, in either uniform set: no pass reads the buffer it is
\* writing.
C23_PingPongSafety ==
    \A u \in {material, uniforms} : u.previousFrame # RT(renderTargetA)

\* C23's case: after two Steps, with a SetSize and a change of blend function
\* among the calls made, target 2 is bound as previous frame and target 1 is
\* the one the third Step would draw into.
C23_Witness ==
    /\ steps = 2
    /\ localRenderer
    /\ given = <<50, 40>>
    /\ blendMode = "NORMAL"
    /\ material.previousFrame = RT(2)
    /\ uniforms.previousFrame = RT(2)
    /\ renderTargetA = 1

\* C24: in every reachable state the effect's uniform map and the material's
\* uniforms hold the same trailAmount, the same trailEnabled and the same
\* currentFrame and previousFrame bindings.
C24_CopiesAgree ==
    /\ uniforms.trailAmount = material.trailAmount
    /\ uniforms.trailEnabled = material.trailEnabled
    /\ uniforms.currentFrame = material.currentFrame
    /\ uniforms.previousFrame = material.previousFrame

\* C24's case: the second Step blended with the default amount (the buffer it
\* drew holds 1 - exp(-0.19)) and bound host buffer 1 and target 2 in both
\* uniform sets; UpdateOptions then stored amount 0 and the flag false in both.
C24_Witness ==
    /\ steps = 2
    /\ targets[2].px = FP - Decay(Normalized(DefaultAmount))
    /\ targets[2].px > 0
    /\ supplied = Given(0)
    /\ uniforms = [previousFrame |-> RT(2), currentFrame |-> <<"in", 1>>,
                   trailAmount |-> 0, trailEnabled |-> FALSE]
    /\ material = uniforms

\* C25: in every reachable state, an UpdateOptions that passes the stored
\* resolutionScale, with whatever amount, flag and blend function, leaves the
\* scale, the buffer dimensions, the buffer contents and their GPU memory as
\* they are: it neither resizes nor clears.
C25_SameScaleKeepsHistory ==
    \A amount \in Optional(ApiAmounts), enabled \in Optional(BOOLEAN),
       blend \in Optional(Blends) :
       \A new \in {Updated(amount, enabled, Given(resolutionScale), blend)} :
          /\ new.resolutionScale = resolutionScale
          /\ new.targets = targets
          /\ new.allocated = allocated

\* C25's case: an initialized effect at scale 0.5 made two Steps with the
\* default amount, then UpdateOptions supplied amount 150: its 400x300 buffers
\* still hold the image the second Step drew, 1 - exp(-0.19).
C25_Witness ==
    /\ localRenderer
    /\ steps = 2
    /\ resolutionScale = DefaultScale
    /\ supplied = Given(150)
    /\ \A i \in TargetIds : Dims(targets[i]) = <<400, 300>>
    /\ targets[2].px = FP - Decay(Normalized(DefaultAmount))
    /\ targets[2].px > 0
    /\ allocated = Owned

\* C26: every call other than a Step (Initialize, SetSize, ResetRenderTargets,
\* UpdateOptions whether it resizes or not, Dispose) returns with the renderer's
\* active render target being the one that was active when it was called: the
\* clears it makes on the two buffers do not leave either of them active.
C26_ClearRestoresActiveTarget ==
    [][steps' = steps => activeTarget' = activeTarget]_vars

\* C26's case: the second Step blended with the default amount (it showed
\* 1 - d + d * (1 - d), d = exp(-0.19)) and left its write target, target 2,
\* active; a later call cleared that target on an initialized effect, and
\* target 2 is still the active one.
C26_Witness ==
    /\ localRenderer
    /\ steps = 2
    /\ \E d \in {Decay(Normalized(DefaultAmount))} : output = Mix(FP, FP - d, d)
    /\ HasArea(targets[2])
    /\ targets[2].px = ClearColour
    /\ activeTarget = RT(2)

====
